---------------------------- MODULE Spec2Model ----------------------------
(***************************************************************************)
(* A model of utilities/modeler.py (class Modeler) and                     *)
(* utilities/jsonhelper.py (class EnzymeMLDocJSON).                        *)
(*                                                                         *)
(* Python sequences are 0-based; the sequences below are 1-based, so the   *)
(* Python index j is the index j+1 here.                                   *)
(*                                                                         *)
(* Floating point numbers are modelled as exact fractions <<n, d>> with    *)
(* d > 0, extended with the two non-finite values numpy produces on a      *)
(* division by zero: <<1, 0>> (inf) and <<0, 0>> (nan).                    *)
(***************************************************************************)
EXTENDS Integers, Sequences, FiniteSets, TLC

VARIABLES
    t,            \* Modeler: the time vector handed to the call
    data,         \* Modeler: the data matrix [rows, ncols] handed to the call
    ret,          \* Modeler heuristics: the outcome of the last call
    params,       \* fit_model: the lmfit Parameters (name -> value)
    ode,          \* fit_model: the user-supplied ODE right-hand side
    pc,           \* fit_model: position inside fit_model / minimize
    exercised,    \* fit_model: residual functions called during this call
    evals,        \* fit_model: residual evaluations done by the running minimize
    lastResidual, \* fit_model: the last residual call and what it returned
    results,      \* get_table_data: the mapping of fit results, in order
    tpc,          \* get_table_data: position inside get_table_data
    columns,      \* get_table_data: local list columns
    table,        \* get_table_data: local list table
    tableRet,     \* get_table_data: the returned triple
    protDic,      \* EnzymeMLDocJSON.protDic (class attribute)
    reactantDic,  \* EnzymeMLDocJSON.reactantDic (class attribute)
    reactionDic,  \* EnzymeMLDocJSON.reactionDic (class attribute, insertion ordered)
    typeDic,      \* EnzymeMLDocJSON.typeDic (class attribute)
    instances,    \* the EnzymeMLDocJSON objects constructed so far
    parsed,       \* history: every document handed to a constructor so far
    lastInit,     \* outcome of the last constructor call
    got           \* outcome of the last getData call

modelerVars == <<t, data, ret>>
fitVars == <<params, ode, pc, exercised, evals, lastResidual>>
tableVars == <<results, tpc, columns, table, tableRet>>
docVars == <<protDic, reactantDic, reactionDic, typeDic, instances, parsed, lastInit, got>>
vars == <<t, data, ret, params, ode, pc, exercised, evals, lastResidual,
          results, tpc, columns, table, tableRet,
          protDic, reactantDic, reactionDic, typeDic, instances, parsed, lastInit, got>>

-----------------------------------------------------------------------------
(* Bounds of the model *)

MaxCols == 3
RowCounts == 0..2
DataVals == {0, 1}
TimeVals == {0, 1, 2}
MaxEvals == 2
MaxResults == 2
MaxDocs == 2

-----------------------------------------------------------------------------
(* Numbers *)

Abs(x) == IF x < 0 THEN -x ELSE x

RECURSIVE GCD(_, _)
GCD(a, b) == IF b = 0 THEN a ELSE GCD(b, a % b)

NaN == <<0, 0>>
Inf == <<1, 0>>

Q(n, d) ==
    IF d = 0 THEN (IF n = 0 THEN NaN ELSE Inf)
    ELSE LET s == IF d < 0 THEN -1 ELSE 1
             g == GCD(Abs(n), Abs(d))
         IN  <<(s * n) \div g, (s * d) \div g>>

QInt(k) == <<k, 1>>
QIsNaN(x) == x = NaN
QIsInf(x) == x = Inf
QFinite(x) == x[2] > 0

QAdd(x, y) ==
    IF QIsNaN(x) \/ QIsNaN(y) THEN NaN
    ELSE IF QIsInf(x) \/ QIsInf(y) THEN Inf
    ELSE Q(x[1] * y[2] + y[1] * x[2], x[2] * y[2])

QNeg(x) == IF QFinite(x) THEN <<-x[1], x[2]>> ELSE x

\* x - y; inf - inf is nan, finite - inf is -inf, which the callers only
\* ever pass to QAbs, so it is kept as Inf.
QSub(x, y) ==
    IF QIsNaN(x) \/ QIsNaN(y) THEN NaN
    ELSE IF QIsInf(x) /\ QIsInf(y) THEN NaN
    ELSE IF QIsInf(x) \/ QIsInf(y) THEN Inf
    ELSE Q(x[1] * y[2] - y[1] * x[2], x[2] * y[2])

QAbs(x) == IF QFinite(x) THEN <<Abs(x[1]), x[2]>> ELSE x

\* x / y for finite x and y; numpy gives nan for 0/0 and +-inf for x/0
\* (the callers take the absolute value).
QDiv(x, y) ==
    IF y[1] = 0 THEN (IF x[1] = 0 THEN NaN ELSE Inf)
    ELSE Q(x[1] * y[2], x[2] * y[1])

\* x < y as IEEE compares: false when either side is nan.
QLess(x, y) ==
    IF QIsNaN(x) \/ QIsNaN(y) THEN FALSE
    ELSE IF QIsInf(x) THEN FALSE
    ELSE IF QIsInf(y) THEN TRUE
    ELSE x[1] * y[2] < y[1] * x[2]

\* x == y as IEEE compares: nan equals nothing.
QEq(x, y) == ~QIsNaN(x) /\ ~QIsNaN(y) /\ x = y

RECURSIVE QSum(_)
QSum(s) == IF s = <<>> THEN QInt(0) ELSE QAdd(s[1], QSum(Tail(s)))

-----------------------------------------------------------------------------
(* numpy helpers *)

\* np.mean(a, axis=0)[j] of a matrix of fractions with `nrows` rows: nan
\* (and a warning, not an exception) when there are no rows.
MeanOfColumn(rows, j) ==
    IF Len(rows) = 0 THEN NaN
    ELSE QDiv(QSum([i \in 1..Len(rows) |-> rows[i][j]]), QInt(Len(rows)))

\* np.mean(data, axis=0)[j] of the integer data matrix
DataColumnMean(d, j) ==
    MeanOfColumn([i \in 1..Len(d.rows) |-> [k \in 1..d.ncols |-> QInt(d.rows[i][k])]], j)

\* np.max(v) of a non-empty vector: nan if any entry is nan
RECURSIVE NpMax(_)
NpMax(v) ==
    IF Len(v) = 1 THEN v[1]
    ELSE LET m == NpMax(Tail(v))
         IN  IF QIsNaN(v[1]) \/ QIsNaN(m) THEN NaN
             ELSE IF QLess(v[1], m) THEN m ELSE v[1]

\* np.argmin(v) of a non-empty vector, as an offset from 0: the first nan
\* if there is one, else the first minimum
NpArgmin(v) ==
    IF \E k \in 1..Len(v) : QIsNaN(v[k])
    THEN (CHOOSE k \in 1..Len(v) : QIsNaN(v[k]) /\ \A l \in 1..(k-1) : ~QIsNaN(v[l])) - 1
    ELSE (CHOOSE k \in 1..Len(v) :
              /\ \A l \in 1..Len(v) : ~QLess(v[l], v[k])
              /\ \A l \in 1..(k-1) : QLess(v[k], v[l])) - 1

-----------------------------------------------------------------------------
(* Modeler: the initial-guess heuristics *)

NoRet == [op |-> "none", err |-> "none", val |-> NaN, v |-> <<>>,
          plainAt |-> {}, divByZero |-> FALSE]

\* line 106: the branch condition of _get_v
UsesPlainDifference(tt, j) == tt[j] = 0

\* a variant of PrevValue: prev_value starts at 0.0 instead of data[i,0]
PrevValueFromZero(d, i, j) == IF j = 1 THEN 0 ELSE d.rows[i][j-1]

\* lines 103-104, 111-112: the previous value and time that _get_v carries
PrevValue(d, i, j) == IF j = 1 THEN d.rows[i][1] ELSE d.rows[i][j-1]
PrevTime(tt, j) == IF j = 1 THEN 0 ELSE tt[j-1]

\* lines 106-110: one cell of v_all
Delta(tt, d, i, j) ==
    IF UsesPlainDifference(tt, j)
    THEN QInt(PrevValue(d, i, j) - d.rows[i][j])
    ELSE QAbs(QDiv(QInt(PrevValue(d, i, j) - d.rows[i][j]),
                   QInt(tt[j] - PrevTime(tt, j))))

\* _get_v: t[j] raises IndexError as soon as a row is walked past the end
\* of t; with no rows the loops do not run.
GetV(tt, d) ==
    LET m == Len(d.rows)
        n == d.ncols
    IN  IF m > 0 /\ Len(tt) < n
        THEN [NoRet EXCEPT !.op = "_get_v", !.err = "IndexError"]
        ELSE LET v_all == [i \in 1..m |-> [j \in 1..n |-> Delta(tt, d, i, j)]]
             IN  [op |-> "_get_v", err |-> "none", val |-> NaN,
                  v |-> [j \in 1..n |-> MeanOfColumn(v_all, j)],
                  plainAt |-> IF m = 0 THEN {}
                              ELSE {j \in 1..n : UsesPlainDifference(tt, j)},
                  divByZero |-> m > 0 /\ \E j \in 1..n :
                                    /\ ~UsesPlainDifference(tt, j)
                                    /\ tt[j] - PrevTime(tt, j) = 0]

\* get_initial_vmax: np.max of an empty vector raises ValueError
GetInitialVmax(tt, d) ==
    LET g == GetV(tt, d)
    IN  IF g.err # "none" THEN [g EXCEPT !.op = "get_initial_vmax"]
        ELSE IF Len(g.v) = 0
        THEN [g EXCEPT !.op = "get_initial_vmax", !.err = "ValueError"]
        ELSE [g EXCEPT !.op = "get_initial_vmax", !.val = NpMax(g.v)]

\* get_initial_bias: np.mean(data, axis=0)[-1]
GetInitialBias(d) ==
    IF d.ncols = 0
    THEN [NoRet EXCEPT !.op = "get_initial_bias", !.err = "IndexError"]
    ELSE [NoRet EXCEPT !.op = "get_initial_bias", !.val = DataColumnMean(d, d.ncols)]

\* get_initial_S0: np.mean(data, axis=0)[0]
GetInitialS0(d) ==
    IF d.ncols = 0
    THEN [NoRet EXCEPT !.op = "get_initial_S0", !.err = "IndexError"]
    ELSE [NoRet EXCEPT !.op = "get_initial_S0", !.val = DataColumnMean(d, 1)]

\* line 142: np.where(v == np.max(v))[0][0], as an offset from 0;
\* -1 stands for the IndexError of an empty match (the maximum is nan)
IdxMax(v) ==
    LET mx == NpMax(v)
    IN  IF \E k \in 1..Len(v) : QEq(v[k], mx)
        THEN (CHOOSE k \in 1..Len(v) :
                  QEq(v[k], mx) /\ \A l \in 1..(k-1) : ~QEq(v[l], mx)) - 1
        ELSE -1

\* line 143: (np.abs(v[idx_max:] - np.max(v)/2)).argmin()
IdxKm(v, idx_max) ==
    LET half == IF QFinite(NpMax(v)) THEN QDiv(NpMax(v), QInt(2)) ELSE NpMax(v)
        tail == [k \in 1..(Len(v) - idx_max) |-> QAbs(QSub(v[idx_max + k], half))]
    IN  NpArgmin(tail)

\* a variant of SubtractBias: the bias is subtracted without the comparison
SubtractBiasAlways(km, bias) == QSub(km, bias)

\* lines 146-147: the bias is subtracted only from a larger km
SubtractBias(km, bias) == IF QLess(bias, km) THEN QSub(km, bias) ELSE km

\* get_initial_Km
GetInitialKm(tt, d) ==
    LET g == GetV(tt, d)
    IN  IF g.err # "none" THEN [g EXCEPT !.op = "get_initial_Km"]
        ELSE IF Len(g.v) = 0
        THEN [g EXCEPT !.op = "get_initial_Km", !.err = "ValueError"]
        ELSE IF IdxMax(g.v) = -1
        THEN [g EXCEPT !.op = "get_initial_Km", !.err = "IndexError"]
        ELSE LET idx_max == IdxMax(g.v)
                 idx_Km == IdxKm(g.v, idx_max)
                 km == DataColumnMean(d, idx_max + idx_Km + 1)
                 bias == GetInitialBias(d).val
             IN  [g EXCEPT !.op = "get_initial_Km", !.val = SubtractBias(km, bias)]

-----------------------------------------------------------------------------
(* The inputs of the heuristics *)

SeqsOfLen(S, n) == [1..n -> S]

Matrices ==
    UNION {{[rows |-> r, ncols |-> n] : r \in SeqsOfLen(SeqsOfLen(DataVals, n), m)} :
               <<m, n>> \in RowCounts \X (0..MaxCols)}

\* time vectors one shorter than, as long as, and one longer than the row
TimeVectorsFor(n) ==
    UNION {SeqsOfLen(TimeVals, k) : k \in {l \in (n-1)..(n+1) : l >= 0}}

IdleFit ==
    /\ params = <<>> /\ ode = "none" /\ pc = "idle" /\ exercised = {}
    /\ evals = 0 /\ lastResidual = [fn |-> "none", p |-> <<>>, err |-> "none", res |-> <<>>]
IdleTable ==
    /\ results = <<>> /\ tpc = "idle" /\ columns = <<>> /\ table = <<>>
    /\ tableRet = [table_data |-> <<>>, shape |-> <<0>>, dtype |-> "none",
                   columns |-> <<>>, rows |-> <<>>]
IdleDoc ==
    /\ protDic = <<>> /\ reactantDic = <<>> /\ reactionDic = <<>>
    /\ typeDic = <<>> /\ instances = <<>> /\ parsed = <<>>
    /\ lastInit = "idle"
    /\ got = [op |-> "none", reaction |-> "", species |-> "", err |-> "none",
              time |-> <<>>, data |-> <<>>]

InitGrad ==
    /\ data \in Matrices
    /\ t \in TimeVectorsFor(data.ncols)
    /\ ret = NoRet
    /\ IdleFit /\ IdleTable /\ IdleDoc

CallGetV ==
    /\ ret.op = "none" /\ pc = "idle" /\ tpc = "idle" /\ lastInit = "idle"
    /\ ret' = GetV(t, data)
    /\ UNCHANGED <<t, data, fitVars, tableVars, docVars>>

CallGetInitialVmax ==
    /\ ret.op = "none" /\ pc = "idle" /\ tpc = "idle" /\ lastInit = "idle"
    /\ ret' = GetInitialVmax(t, data)
    /\ UNCHANGED <<t, data, fitVars, tableVars, docVars>>

CallGetInitialKm ==
    /\ ret.op = "none" /\ pc = "idle" /\ tpc = "idle" /\ lastInit = "idle"
    /\ ret' = GetInitialKm(t, data)
    /\ UNCHANGED <<t, data, fitVars, tableVars, docVars>>

CallGetInitialBias ==
    /\ ret.op = "none" /\ pc = "idle" /\ tpc = "idle" /\ lastInit = "idle"
    /\ ret' = GetInitialBias(data)
    /\ UNCHANGED <<t, data, fitVars, tableVars, docVars>>

CallGetInitialS0 ==
    /\ ret.op = "none" /\ pc = "idle" /\ tpc = "idle" /\ lastInit = "idle"
    /\ ret' = GetInitialS0(data)
    /\ UNCHANGED <<t, data, fitVars, tableVars, docVars>>

NextGrad ==
    \/ CallGetV
    \/ CallGetInitialVmax
    \/ CallGetInitialKm
    \/ CallGetInitialBias
    \/ CallGetInitialS0

SpecGrad == InitGrad /\ [][NextGrad]_vars

-----------------------------------------------------------------------------
(* Properties of the heuristics *)

\* A valid input (spec section 3): at least one replicate and one time
\* point, data columns aligned with t, t non-negative and strictly increasing.
ValidInput ==
    /\ Len(data.rows) >= 1
    /\ data.ncols >= 1
    /\ Len(t) = data.ncols
    /\ \A j \in 1..Len(t) : t[j] >= 0
    /\ \A j \in 2..Len(t) : t[j-1] < t[j]

ConstantRows == \A i \in 1..Len(data.rows) : \A j \in 1..data.ncols :
                    data.rows[i][j] = data.rows[i][1]

RECURSIVE SumOver(_, _)
SumOver(f, S) == IF S = {} THEN 0
                 ELSE LET x == CHOOSE y \in S : TRUE IN f[x] + SumOver(f, S \ {x})

\* the mean of column j of data, as a fraction
ColumnMean(j) ==
    Q(SumOver([i \in 1..Len(data.rows) |-> data.rows[i][j]], 1..Len(data.rows)),
      Len(data.rows))

\* C3: whenever t[j] equals the previous time, _get_v takes the plain
\* difference and never divides; a zero divisor is never reached; with
\* t[0] = 0 the gradient at j = 0 is 0.
C3_NoDivisionAtEqualTimes ==
    (ret.op = "_get_v" /\ ret.err = "none" /\ Len(data.rows) > 0) =>
        /\ \A j \in 1..data.ncols : t[j] = PrevTime(t, j) => j \in ret.plainAt
        /\ ~ret.divByZero
        /\ (data.ncols >= 1 /\ t[1] = 0) => ret.v[1] = QInt(0)

\* C4: on a valid input get_initial_Km returns c - bias when c > bias and c
\* otherwise, c being the column mean at idx_max + idx_halfmax and bias the
\* mean of the last column; a subtraction leaves a positive value.
C4_KmBiasSubtraction ==
    (ValidInput /\ ret.op = "get_initial_Km") =>
        /\ ret.err = "none"
        /\ LET v == ret.v
               n == Len(v)
               idx_max == CHOOSE k \in 1..n :
                              /\ \A l \in 1..n : ~QLess(v[k], v[l])
                              /\ \A l \in 1..(k-1) : QLess(v[l], v[k])
               dist(k) == QAbs(QSub(v[k], QDiv(v[idx_max], QInt(2))))
               idx_half == CHOOSE k \in idx_max..n :
                              /\ \A l \in idx_max..n : ~QLess(dist(l), dist(k))
                              /\ \A l \in idx_max..(k-1) : QLess(dist(k), dist(l))
               c == ColumnMean(idx_half)
               bias == ColumnMean(n)
           IN  /\ QLess(bias, c) => (ret.val = QSub(c, bias) /\ QLess(QInt(0), ret.val))
               /\ ~QLess(bias, c) => ret.val = c

\* C4 witness: a valid input on which the bias was subtracted from a larger
\* column mean, the bias being positive
C4_Witness ==
    /\ ValidInput /\ ret.op = "get_initial_Km" /\ ret.err = "none"
    /\ QLess(QInt(0), ColumnMean(data.ncols))
    /\ \E j \in 1..data.ncols :
          /\ QLess(ColumnMean(data.ncols), ColumnMean(j))
          /\ ret.val = QSub(ColumnMean(j), ColumnMean(data.ncols))

\* C5: with len(t) different from the number of columns, or an empty input,
\* get_initial_vmax and get_initial_Km raise and return no value.
C5_ShapeMismatchFails ==
    ( /\ ret.op \in {"get_initial_vmax", "get_initial_Km"}
      /\ \/ Len(t) # data.ncols
         \/ Len(t) = 0
         \/ Len(data.rows) = 0 ) => ret.err # "none"

\* C7: on a valid input whose replicate rows are constant across time, the
\* averaged gradient is all zero and get_initial_vmax is 0.
C7_ConstantDataZeroGradient ==
    (ValidInput /\ ConstantRows) =>
        /\ ret.op = "_get_v" =>
              ret.err = "none" /\ \A j \in 1..data.ncols : ret.v[j] = QInt(0)
        /\ ret.op = "get_initial_vmax" => ret.err = "none" /\ ret.val = QInt(0)

\* C7 witness: two constant non-zero replicates, first time point after 0
C7_Witness ==
    /\ ValidInput /\ ConstantRows /\ ret.op = "get_initial_vmax"
    /\ Len(data.rows) = 2 /\ data.ncols >= 2 /\ t[1] > 0
    /\ data.rows[1][1] # 0 /\ ret.val = QInt(0)

-----------------------------------------------------------------------------
(* Modeler: residuals and fit_model *)

\* The values a parameter of the model takes (the optimizer moves S0)
ParamVals == [v0 |-> {2}, S0 |-> {0, 1}, bias |-> {1}, vmax |-> {1}]

ParameterSets ==
    UNION {{p \in [K -> 0..2] : \A k \in K : p[k] \in ParamVals[k]} :
               K \in SUBSET {"v0", "S0", "bias", "vmax"}}

\* The user-supplied right-hand sides: "zero" is f = 0; "const_rate" is
\* dS/dt = -params['vmax'] (and dv/dt = 0), which reads params['vmax'].
OdeModels == {"zero", "const_rate"}

\* solveODE: odeint(f, w0, t, args=(params,)); row j is the state at t[j],
\* the integration starting from w0 at t[0].  f is evaluated (and raises
\* its KeyError) as soon as there is a second time point to integrate to.
SolveODE(f, tt, w0, p) ==
    IF f = "const_rate" /\ "vmax" \notin DOMAIN p /\ Len(tt) >= 2
    THEN [err |-> "KeyError", w |-> <<>>]
    ELSE [err |-> "none",
          w |-> [j \in 1..Len(tt) |->
                    [k \in 1..Len(w0) |->
                        IF f = "const_rate" /\ k = Len(w0) /\ j >= 2
                        THEN w0[k] - p["vmax"] * (tt[j] - tt[1])
                        ELSE w0[k]]]]

\* lines 48-53, 76-81: the initial state and the column of S; nW is the
\* Python column index.  A missing S0 raises KeyError out of the handler.
InitialState(p) ==
    IF "v0" \in DOMAIN p /\ "S0" \in DOMAIN p
    THEN [err |-> "none", w0 |-> <<p["v0"], p["S0"]>>, nW |-> 1]
    ELSE IF "S0" \in DOMAIN p
    THEN [err |-> "none", w0 |-> <<p["S0"]>>, nW |-> 0]
    ELSE [err |-> "KeyError", w0 |-> <<>>, nW |-> 0]

\* a variant of Flatten: column-major order
FlattenColumnMajor(rows, n) ==
    [k \in 1..(Len(rows) * n) |->
        rows[((k - 1) % Len(rows)) + 1][((k - 1) \div Len(rows)) + 1]]

\* residual.flatten(): row-major
Flatten(rows, n) ==
    [k \in 1..(Len(rows) * n) |-> rows[((k - 1) \div n) + 1][((k - 1) % n) + 1]]

\* lines 59-60, 87: one row of the residual
ResidualRow(row, s_model, p, withBias) ==
    [j \in 1..Len(row) |->
        row[j] - (IF withBias THEN s_model[j] + p["bias"] ELSE s_model[j])]

\* _residual_with_bias (withBias) and _residual: the loop body runs once
\* per replicate, so with no replicate nothing past line 55 is evaluated.
Residual(p, tt, d, f, withBias) ==
    LET fn == IF withBias THEN "bias" ELSE "plain"
        st == InitialState(p)
        fail == [fn |-> fn, p |-> p, err |-> "KeyError", res |-> <<>>]
    IN  IF st.err # "none" THEN fail
        ELSE IF Len(d.rows) = 0
        THEN [fn |-> fn, p |-> p, err |-> "none", res |-> <<>>]
        ELSE LET model == SolveODE(f, tt, st.w0, p)
             IN  IF model.err # "none" THEN fail
                 ELSE IF withBias /\ "bias" \notin DOMAIN p THEN fail
                 ELSE LET s_model == [j \in 1..Len(tt) |-> model.w[j][st.nW + 1]]
                          residual == [i \in 1..Len(d.rows) |->
                                          ResidualRow(d.rows[i], s_model, p, withBias)]
                      IN  [fn |-> fn, p |-> p, err |-> "none",
                           res |-> Flatten(residual, d.ncols)]

NoResidual == [fn |-> "none", p |-> <<>>, err |-> "none", res |-> <<>>]

\* the parameter values the optimizer may try: same names, other values
TrialParams(p) == {q \in ParameterSets : DOMAIN q = DOMAIN p}

StrictlyIncreasing(tt) == \A j \in 2..Len(tt) : tt[j-1] < tt[j]

FitTimeVectors ==
    UNION {{tt \in SeqsOfLen(TimeVals, n) : StrictlyIncreasing(tt)} : n \in 2..MaxCols}

IdleGrad == ret = NoRet

InitFit ==
    /\ t \in FitTimeVectors
    /\ data \in {d \in Matrices : d.ncols = Len(t) /\ Len(d.rows) >= 1}
    /\ params \in ParameterSets
    /\ ode \in OdeModels
    /\ pc = "start" /\ exercised = {} /\ evals = 0 /\ lastResidual = NoResidual
    /\ IdleGrad /\ IdleTable /\ IdleDoc

\* fit_model, lines 188-192: the lookup of params['bias'] picks the
\* minimize call; a KeyError of the lookup enters the except branch.
FitModelEnter ==
    /\ pc = "start"
    /\ pc' = IF "bias" \in DOMAIN params THEN "minimize_bias" ELSE "minimize_plain"
    /\ evals' = 0
    /\ UNCHANGED <<modelerVars, params, ode, exercised, lastResidual, tableVars, docVars>>

\* minimize(...) evaluating the residual function once: first at the given
\* parameters, then at the optimizer's trial values.  A KeyError raised by
\* the evaluation leaves minimize; inside the try block (line 190) the
\* except clause of line 191 catches it and calls minimize with _residual,
\* inside the except block (line 192) it leaves fit_model.
MinimizeEvaluate ==
    /\ pc \in {"minimize_bias", "minimize_plain"}
    /\ evals < MaxEvals
    /\ \E q \in (IF evals = 0 THEN {params} ELSE TrialParams(params)) :
          LET r == Residual(q, t, data, ode, pc = "minimize_bias")
          IN  /\ lastResidual' = r
              /\ exercised' = exercised \cup {r.fn}
              /\ IF r.err = "KeyError"
                 THEN /\ pc' = IF pc = "minimize_bias" THEN "minimize_plain" ELSE "raised"
                      /\ evals' = 0
                 ELSE /\ pc' = pc
                      /\ evals' = evals + 1
    /\ UNCHANGED <<modelerVars, params, ode, tableVars, docVars>>

\* minimize returns its result, fit_model returns it (line 193)
MinimizeReturn ==
    /\ pc \in {"minimize_bias", "minimize_plain"}
    /\ evals >= 1
    /\ pc' = "done"
    /\ UNCHANGED <<modelerVars, params, ode, exercised, evals, lastResidual,
                   tableVars, docVars>>

\* a direct call of _residual_with_bias or _residual
CallResidual ==
    /\ pc = "start"
    /\ \E withBias \in BOOLEAN :
          lastResidual' = Residual(params, t, data, ode, withBias)
    /\ pc' = "called"
    /\ UNCHANGED <<modelerVars, params, ode, exercised, evals, tableVars, docVars>>

NextFit ==
    \/ FitModelEnter
    \/ MinimizeEvaluate
    \/ MinimizeReturn
    \/ CallResidual

SpecFit == InitFit /\ [][NextFit]_vars

-----------------------------------------------------------------------------
(* Properties of the residuals and of fit_model *)

\* C1: within one call of fit_model at most one residual function is
\* exercised, and a call that returns has exercised exactly the one that
\* the presence of 'bias' in params selects.
C1_OnePathPerCall ==
    /\ Cardinality(exercised) <= 1
    /\ pc \in {"done", "raised"} =>
          exercised = {IF "bias" \in DOMAIN params THEN "bias" ELSE "plain"}

\* the model curve the claim compares with: the S column of the solution
ModelCurve(p) ==
    LET w0 == IF "v0" \in DOMAIN p THEN <<p["v0"], p["S0"]>> ELSE <<p["S0"]>>
        sIndex == IF "v0" \in DOMAIN p THEN 1 ELSE 0
    IN  [j \in 1..Len(t) |-> SolveODE(ode, t, w0, p).w[j][sIndex + 1]]

\* the residual call the claim is about: S0 given, the bias given where it
\* is added, and an ODE function that finds its parameters
ResidualApplies(r) ==
    /\ r.fn # "none"
    /\ "S0" \in DOMAIN r.p
    /\ r.fn = "bias" => "bias" \in DOMAIN r.p
    /\ ode = "const_rate" => "vmax" \in DOMAIN r.p

\* C2: both residual functions return the m*n vector, row-major, of
\* data[i][j] - model[j][S-index] (- bias in the bias-aware variant), the
\* same model curve for every row; data equal to model (+ bias) gives zeros.
C2_ResidualValues ==
    ResidualApplies(lastResidual) =>
        LET r == lastResidual
            m == Len(data.rows)
            n == data.ncols
            b == IF r.fn = "bias" THEN r.p["bias"] ELSE 0
            curve == ModelCurve(r.p)
        IN  /\ r.err = "none"
            /\ Len(r.res) = m * n
            /\ \A i \in 0..(m-1) : \A j \in 0..(n-1) :
                  r.res[i * n + j + 1] = data.rows[i+1][j+1] - (curve[j+1] + b)
            /\ (\A i \in 1..m : \A j \in 1..n : data.rows[i][j] = curve[j] + b)
                  => \A k \in 1..(m * n) : r.res[k] = 0

\* C2 witness: a bias-aware residual of a two-state system over two
\* replicates that differ, not all zero
C2_Witness ==
    /\ ResidualApplies(lastResidual)
    /\ lastResidual.fn = "bias" /\ "v0" \in DOMAIN lastResidual.p
    /\ Len(data.rows) = 2 /\ data.ncols = 3 /\ ode = "const_rate"
    /\ data.rows[1] # data.rows[2]
    /\ lastResidual.err = "none" /\ Len(lastResidual.res) = 6
    /\ \E k \in 1..6 : lastResidual.res[k] # 0

\* C2, second case: data generated as model + bias gives an all-zero residual
C2_ZeroResidualReached ==
    /\ ResidualApplies(lastResidual) /\ lastResidual.fn = "bias"
    /\ lastResidual.err = "none" /\ Len(lastResidual.res) >= 4
    /\ \A k \in 1..Len(lastResidual.res) : lastResidual.res[k] = 0

-----------------------------------------------------------------------------
(* Modeler: unit conversion and get_table_data *)

(* Parameter values are counted in ten-thousandths (1.0 is 10000); a       *)
(* rounded table cell is counted in thousandths (40.323 is 40323).          *)

\* line 207: epsilon = 24.8, in tenths
EpsilonTenths == 248
\* line 208: d = 1.
PathLength == 1

\* convert_to_conc: absorption/(epsilon*d)*1000, as a fraction of
\* ten-thousandths
ConvertToConc(absorption) == Q(absorption * 10000, EpsilonTenths * PathLength)

\* round(value, 3) of a fraction of ten-thousandths, in thousandths: the
\* nearest thousandth, the even one on a tie
Round3(value) ==
    LET n == value[1]
        d == value[2] * 10
        q == n \div d
        r == n - q * d
    IN  IF 2 * r < d THEN q
        ELSE IF 2 * r > d THEN q + 1
        ELSE IF q % 2 = 0 THEN q ELSE q + 1

\* line 226: rows
TableRows == <<"S0", "bias", "vmax", "Km", "a">>
\* line 244: the row labels returned
TableRowLabels == <<"S0 [mmol/L]", "bias [mmol/L]", "vmax [M/min]", "Km [mmol/L]",
                    "a [1/min]">>

\* lines 233-234: valuesdict().get(key) == None
IsAbsent(valuesdict, key) == key \notin DOMAIN valuesdict

\* line 237: the parameters that go through convert_to_conc
IsConverted(key) == ~(key = "vmax" \/ key = "a")

\* lines 233-239: one cell of inner_array
TableCell(valuesdict, key) ==
    IF IsAbsent(valuesdict, key) THEN [kind |-> "-", milli |-> 0]
    ELSE IF IsConverted(key)
    THEN [kind |-> "float", milli |-> Round3(ConvertToConc(valuesdict[key]))]
    ELSE [kind |-> "float", milli |-> Round3(QInt(valuesdict[key]))]

\* lines 231-239: inner_array of one fit result
InnerArray(valuesdict) == [r \in 1..Len(TableRows) |-> TableCell(valuesdict, TableRows[r])]

\* line 242: np.array(table) of a list that holds a '-' is an array of
\* strings, every number replaced by its text; of numbers only, of floats
NpArrayDtype(tbl) ==
    IF \E k \in 1..Len(tbl) : \E r \in 1..Len(tbl[k]) : tbl[k][r].kind = "-"
    THEN "str" ELSE "float64"

NpArrayCell(cell, dtype) ==
    IF dtype = "str" /\ cell.kind = "float" THEN [cell EXCEPT !.kind = "str"] ELSE cell

\* line 242: np.transpose(np.array(table)); an empty list gives an array
\* of shape (0,), which its transpose leaves as it is
TransposedArray(tbl) ==
    IF Len(tbl) = 0
    THEN [table_data |-> <<>>, shape |-> <<0>>, dtype |-> "float64"]
    ELSE [table_data |-> [r \in 1..Len(tbl[1]) |->
                             [k \in 1..Len(tbl) |-> NpArrayCell(tbl[k][r], NpArrayDtype(tbl))]],
          shape |-> <<Len(tbl[1]), Len(tbl)>>,
          dtype |-> NpArrayDtype(tbl)]

\* the fitted parameter sets that are tabulated
TableParamSets ==
    { [S0 |-> 10000, vmax |-> 50000],
      [S0 |-> 0, bias |-> 0, vmax |-> 0, Km |-> 0, a |-> 0],
      [k \in {} |-> 0],
      [S0 |-> 1234, bias |-> -500, vmax |-> 20006, Km |-> 7500,
       a |-> 12344, v0 |-> 3000],
      [bias |-> 5000, Km |-> 0, v0 |-> 10000] }

ResultNames == {"fit1", "fit2", "fit3"}

\* a mapping name -> fit result, in insertion order, the names distinct
ResultMappings ==
    UNION {{m \in SeqsOfLen([key : ResultNames, params : TableParamSets], n) :
               \A i, j \in 1..n : i # j => m[i].key # m[j].key} : n \in 0..MaxResults}

NoTable == [table_data |-> <<>>, shape |-> <<0>>, dtype |-> "none",
            columns |-> <<>>, rows |-> <<>>]

InitTable ==
    /\ results \in ResultMappings
    /\ tpc = "start" /\ columns = <<>> /\ table = <<>> /\ tableRet = NoTable
    /\ t = <<>> /\ data = [rows |-> <<>>, ncols |-> 0] /\ IdleGrad /\ IdleFit /\ IdleDoc

\* get_table_data, lines 226-228
TableBegin ==
    /\ tpc = "start"
    /\ columns' = <<>> /\ table' = <<>>
    /\ tpc' = "loop"
    /\ UNCHANGED <<results, tableRet, modelerVars, fitVars, docVars>>

\* get_table_data, lines 229-240: one item of results
TableItem ==
    /\ tpc = "loop"
    /\ Len(table) < Len(results)
    /\ LET item == results[Len(table) + 1]
       IN  /\ columns' = Append(columns, item.key)
           /\ table' = Append(table, InnerArray(item.params))
    /\ UNCHANGED <<results, tpc, tableRet, modelerVars, fitVars, docVars>>

\* get_table_data, lines 242-246
TableReturn ==
    /\ tpc = "loop"
    /\ Len(table) = Len(results)
    /\ LET a == TransposedArray(table)
       IN  tableRet' = [table_data |-> a.table_data, shape |-> a.shape, dtype |-> a.dtype,
                        columns |-> columns, rows |-> TableRowLabels]
    /\ tpc' = "returned"
    /\ UNCHANGED <<results, columns, table, modelerVars, fitVars, docVars>>

NextTable ==
    \/ TableBegin
    \/ TableItem
    \/ TableReturn

SpecTable == InitTable /\ [][NextTable]_vars

-----------------------------------------------------------------------------
(* Properties of get_table_data *)

\* c thousandths is x (a fraction of ten-thousandths) rounded to 3 decimals
IsRounded(c, x) == 2 * Abs(c * 10 * x[2] - x[1]) <= 10 * x[2]

\* the cells of the table, whatever the shape of the mapping
CellsAsClaimed ==
    \A r \in 1..5 : \A k \in 1..Len(results) :
        LET p == <<"S0", "bias", "vmax", "Km", "a">>[r]
            vals == results[k].params
            cell == tableRet.table_data[r][k]
        IN  /\ cell.kind = "-" <=> p \notin DOMAIN vals
            /\ p \in DOMAIN vals =>
                  IF p \in {"vmax", "a"}
                  THEN IsRounded(cell.milli, <<vals[p], 1>>)
                  ELSE IsRounded(cell.milli, <<vals[p] * 10000, 248>>)

\* the layout of the table of a mapping that holds at least one fit result
TableLayoutOfNonEmptyMapping ==
    (tpc = "returned" /\ Len(results) >= 1) =>
        /\ tableRet.shape = <<5, Len(results)>>
        /\ Len(tableRet.table_data) = 5
        /\ \A r \in 1..5 : Len(tableRet.table_data[r]) = Len(results)
        /\ tableRet.columns = [k \in 1..Len(results) |-> results[k].key]
        /\ CellsAsClaimed

\* C6: get_table_data returns a matrix with the five parameter rows and one
\* column per fit result, in the mapping's order; a cell is '-' exactly
\* when the parameter is missing, else the value rounded to 3 decimals,
\* converted unless the parameter is vmax or a; the column labels are the keys.
C6_TableLayout ==
    tpc = "returned" =>
        /\ Len(tableRet.table_data) = 5
        /\ \A r \in 1..Len(tableRet.table_data) :
              Len(tableRet.table_data[r]) = Len(results)
        /\ tableRet.columns = [k \in 1..Len(results) |-> results[k].key]
        /\ CellsAsClaimed

-----------------------------------------------------------------------------
(* EnzymeMLDocJSON: the registries, the constructor and getData *)

\* dic[k] = v on a Python dict
DictSet(dic, k, v) == (k :> v) @@ dic

\* a variant of SetNameDic: the registry is built anew for each document
RECURSIVE SetNameDicFresh(_, _)
SetNameDicFresh(dic, entries) ==
    IF entries = <<>> THEN <<>>
    ELSE DictSet(SetNameDicFresh(dic, SubSeq(entries, 1, Len(entries) - 1)),
                 entries[Len(entries)].id, entries[Len(entries)].name)

\* _setProteinDic, _setReactantDic (lines 114-120): dic[e['id']] = e['name']
\* for each entry in turn, on the dictionary of the class
RECURSIVE SetNameDic(_, _)
SetNameDic(dic, entries) ==
    IF entries = <<>> THEN dic
    ELSE SetNameDic(DictSet(dic, Head(entries).id, Head(entries).name), Tail(entries))

\* reactionDic[r['id']] = r on the insertion-ordered dict: a known id keeps
\* its place, a new one goes last
OrderedSet(dic, r) ==
    IF \E i \in 1..Len(dic) : dic[i].id = r.id
    THEN [i \in 1..Len(dic) |-> IF dic[i].id = r.id THEN r ELSE dic[i]]
    ELSE Append(dic, r)

\* _setReactionDic (lines 122-124)
RECURSIVE SetReactionDic(_, _)
SetReactionDic(dic, reactions) ==
    IF reactions = <<>> THEN dic
    ELSE SetReactionDic(OrderedSet(dic, Head(reactions)), Tail(reactions))

\* __str__, lines 87-105: the species of one reaction in the order they are
\* rendered, each with the list it is in
Rendered(reac) ==
    [i \in 1..Len(reac.educts) |-> [species |-> reac.educts[i].species, role |-> "educts"]]
    \o [i \in 1..Len(reac.products) |->
           [species |-> reac.products[i].species, role |-> "products"]]
    \o [i \in 1..Len(reac.modifiers) |->
           [species |-> reac.modifiers[i].species, role |-> "modifiers"]]

\* __str__, line 84: every reaction of reactionDic in dictionary order
RECURSIVE RenderedAll(_)
RenderedAll(dic) ==
    IF dic = <<>> THEN <<>> ELSE Rendered(Head(dic)) \o RenderedAll(Tail(dic))

\* __str__, lines 87-105, over the species in rendering order: an educt or
\* product that reactantDic does not know raises KeyError (lines 88, 92)
\* before its role is written; a modifier is written if reactantDic or
\* protDic knows it, and is skipped otherwise (lines 96-105).
RECURSIVE WriteRoles(_, _, _, _)
WriteRoles(td, todo, rdic, pdic) ==
    IF todo = <<>> THEN [typeDic |-> td, err |-> "none"]
    ELSE LET w == Head(todo)
         IN  IF w.role = "modifiers"
             THEN WriteRoles(IF w.species \in DOMAIN rdic \/ w.species \in DOMAIN pdic
                             THEN DictSet(td, w.species, w.role) ELSE td,
                             Tail(todo), rdic, pdic)
             ELSE IF w.species \notin DOMAIN rdic
             THEN [typeDic |-> td, err |-> "KeyError"]
             ELSE WriteRoles(DictSet(td, w.species, w.role), Tail(todo), rdic, pdic)

\* __str__ (lines 72-106), its effect on typeDic
Str(td, reacDic, rdic, pdic) == WriteRoles(td, RenderedAll(reacDic), rdic, pdic)

\* getData, lines 131-133: time is the time of the last replicate seen,
\* data has one row per replicate
RECURSIVE CollectData(_, _, _)
CollectData(acc, entries, species) ==
    IF entries = <<>> THEN acc
    ELSE LET e == Head(entries)
             reps == e.replicates
         IN  CollectData(
                 IF e.species = species /\ Len(reps) > 0
                 THEN [time |-> reps[Len(reps)].time,
                       data |-> acc.data \o [k \in 1..Len(reps) |-> reps[k].data]]
                 ELSE acc,
                 Tail(entries), species)

NoGot == [op |-> "none", reaction |-> "", species |-> "", err |-> "none",
          time |-> <<>>, data |-> <<>>]

\* getData (lines 126-134): self.reactionDic[reaction] and then
\* self.typeDic[species] raise KeyError for an unknown key
GetData(reaction, species) ==
    LET g == [NoGot EXCEPT !.op = "getData", !.reaction = reaction, !.species = species]
    IN  IF ~\E i \in 1..Len(reactionDic) : reactionDic[i].id = reaction
        THEN [g EXCEPT !.err = "KeyError"]
        ELSE IF species \notin DOMAIN typeDic
        THEN [g EXCEPT !.err = "KeyError"]
        ELSE LET reac == reactionDic[CHOOSE i \in 1..Len(reactionDic) :
                                         reactionDic[i].id = reaction]
                 c == CollectData([time |-> <<>>, data |-> <<>>],
                                  reac[typeDic[species]], species)
             IN  [g EXCEPT !.time = c.time, !.data = c.data]

-----------------------------------------------------------------------------
(* The documents *)

Rep(k) == [time |-> <<0, 1>>, data |-> <<k, k + 1>>]
Entry(s, reps) == [species |-> s, replicates |-> reps]

ReactionPool ==
    { [id |-> "r1", name |-> "A",
       educts |-> <<Entry("s1", <<Rep(1), Rep(2)>>)>>,
       products |-> <<Entry("s2", <<Rep(3)>>)>>,
       modifiers |-> <<Entry("p1", <<>>)>>],
      [id |-> "r2", name |-> "B",
       educts |-> <<Entry("s3", <<Rep(4)>>)>>,
       products |-> <<Entry("s1", <<Rep(5)>>)>>,
       modifiers |-> <<>>],
      [id |-> "r1", name |-> "C",
       educts |-> <<Entry("s2", <<Rep(6)>>)>>,
       products |-> <<>>,
       modifiers |-> <<Entry("s1", <<Rep(7)>>), Entry("m0", <<>>)>>] }

Declarations ==
    { [name |-> "x",
       protein |-> <<[id |-> "p1", name |-> "P1x"]>>,
       reactant |-> <<[id |-> "s1", name |-> "S1x"], [id |-> "s2", name |-> "S2x"],
                      [id |-> "s3", name |-> "S3x"]>>],
      [name |-> "y",
       protein |-> <<>>,
       reactant |-> <<[id |-> "s1", name |-> "S1y"], [id |-> "s3", name |-> "S3y"]>>] }

Documents ==
    {[name |-> d.name, protein |-> d.protein, reactant |-> d.reactant, reaction |-> rs] :
        d \in Declarations,
        rs \in UNION {SeqsOfLen(ReactionPool, n) : n \in 0..2}}

ReactionIds == {"r1", "r2", "r9"}
SpeciesIds == {"s1", "s2", "s3", "p1", "m0"}

InitDoc ==
    /\ protDic = <<>> /\ reactantDic = <<>> /\ reactionDic = <<>> /\ typeDic = <<>>
    /\ instances = <<>> /\ parsed = <<>> /\ lastInit = "none" /\ got = NoGot
    /\ t = <<>> /\ data = [rows |-> <<>>, ncols |-> 0] /\ IdleGrad /\ IdleFit /\ IdleTable

\* EnzymeMLDocJSON(JSON), lines 59-70: the three setters update the
\* dictionaries of the class, then __str__ rewrites typeDic; a KeyError of
\* __str__ leaves the constructor after the dictionaries were updated, and
\* no object is made.
Construct ==
    /\ lastInit \in {"none", "ok", "KeyError"}
    /\ got.op = "none"
    /\ Len(parsed) < MaxDocs
    /\ \E doc \in Documents :
          LET pd == SetNameDic(protDic, doc.protein)
              rd == SetNameDic(reactantDic, doc.reactant)
              rc == SetReactionDic(reactionDic, doc.reaction)
              st == Str(typeDic, rc, rd, pd)
          IN  /\ protDic' = pd
              /\ reactantDic' = rd
              /\ reactionDic' = rc
              /\ typeDic' = st.typeDic
              /\ lastInit' = IF st.err = "none" THEN "ok" ELSE st.err
              /\ instances' = IF st.err = "none" THEN Append(instances, doc) ELSE instances
              /\ parsed' = Append(parsed, doc)
    /\ UNCHANGED <<got, modelerVars, fitVars, tableVars>>

\* str(doc) on an object made earlier: __str__ runs again over the
\* dictionaries of the class
CallStr ==
    /\ Len(instances) >= 1
    /\ got.op = "none"
    /\ typeDic' = Str(typeDic, reactionDic, reactantDic, protDic).typeDic
    /\ UNCHANGED <<protDic, reactantDic, reactionDic, instances, parsed, lastInit, got,
                   modelerVars, fitVars, tableVars>>

\* getData(reaction, species) on any object made so far; the call changes
\* no dictionary, and a run of the model ends with it
CallGetData ==
    /\ Len(instances) >= 1
    /\ got.op = "none"
    /\ \E reaction \in ReactionIds, species \in SpeciesIds :
          got' = GetData(reaction, species)
    /\ UNCHANGED <<protDic, reactantDic, reactionDic, typeDic, instances, parsed,
                   lastInit, modelerVars, fitVars, tableVars>>

NextDoc ==
    \/ Construct
    \/ CallStr
    \/ CallGetData

SpecDoc == InitDoc /\ [][NextDoc]_vars

-----------------------------------------------------------------------------
(* Properties of the registries and of getData *)

Roles == {"educts", "products", "modifiers"}

\* the lists of reaction reac that hold species s
RolesIn(reac, s) ==
    {role \in Roles : \E i \in 1..Len(reac[role]) : reac[role][i].species = s}

\* the replicate rows recorded for s in one list of a reaction
RECURSIVE RowsOf(_, _)
RowsOf(entries, s) ==
    IF entries = <<>> THEN <<>>
    ELSE (IF Head(entries).species = s
          THEN [k \in 1..Len(Head(entries).replicates) |-> Head(entries).replicates[k].data]
          ELSE <<>>) \o RowsOf(Tail(entries), s)

AllRows(reac, s) ==
    RowsOf(reac.educts, s) \o RowsOf(reac.products, s) \o RowsOf(reac.modifiers, s)

Registered(r) == \E i \in 1..Len(reactionDic) : reactionDic[i].id = r
ReactionOf(r) == reactionDic[CHOOSE i \in 1..Len(reactionDic) : reactionDic[i].id = r]

\* C8: getData fails with an error whenever the (reaction, species) pair is
\* absent: unknown reaction, unknown species, or a species that takes no
\* part in the given reaction; an empty result is never returned for it.
C8_AbsentPairFails ==
    ( /\ got.op = "getData"
      /\ \/ ~Registered(got.reaction)
         \/ RolesIn(ReactionOf(got.reaction), got.species) = {} )
    => got.err # "none"

\* C9: for a species s that takes part in reaction r with replicates,
\* getData(r, s) returns the time vector and all replicate rows recorded
\* for s in r, whatever role s has in other reactions.
C9_ParticipantDataFound ==
    ( /\ got.op = "getData"
      /\ lastInit = "ok"
      /\ Registered(got.reaction)
      /\ AllRows(ReactionOf(got.reaction), got.species) # <<>> )
    => /\ got.err = "none"
       /\ got.data = AllRows(ReactionOf(got.reaction), got.species)
       /\ got.time = <<0, 1>>

\* the documents parsed so far that declare id in the list `field`
Declaring(field, id) ==
    {k \in 1..Len(parsed) : \E i \in 1..Len(parsed[k][field]) : parsed[k][field][i].id = id}

Max(S) == CHOOSE x \in S : \A y \in S : y <= x

\* the last entry with this id in the list `field` of the latest document
\* that declares it
LatestEntry(field, id) ==
    LET list == parsed[Max(Declaring(field, id))][field]
    IN  list[Max({i \in 1..Len(list) : list[i].id = id})]

DeclaredIds(field) ==
    UNION {{parsed[k][field][i].id : i \in 1..Len(parsed[k][field])} : k \in 1..Len(parsed)}

\* a name registry holds the entries of all documents, the latest winning
NamesAccumulated(dic, field) ==
    /\ DOMAIN dic = DeclaredIds(field)
    /\ \A id \in DOMAIN dic : dic[id] = LatestEntry(field, id).name

\* the reaction registry holds the reactions of all documents, one per id,
\* the latest winning
ReactionsAccumulated ==
    /\ {reactionDic[i].id : i \in 1..Len(reactionDic)} = DeclaredIds("reaction")
    /\ \A i, j \in 1..Len(reactionDic) : reactionDic[i].id = reactionDic[j].id => i = j
    /\ \A i \in 1..Len(reactionDic) :
          reactionDic[i] = LatestEntry("reaction", reactionDic[i].id)

\* the documents parsed so far in which species s is in a list of a reaction
Mentioning(s) ==
    {k \in 1..Len(parsed) :
        \E i \in 1..Len(parsed[k].reaction) : RolesIn(parsed[k].reaction[i], s) # {}}

RolesInDocument(doc, s) ==
    UNION {RolesIn(doc.reaction[i], s) : i \in 1..Len(doc.reaction)}

\* the species-role registry under "the latest document wins"
RolesLatestWins ==
    \A s \in DOMAIN typeDic :
        typeDic[s] \in RolesInDocument(parsed[Max(Mentioning(s))], s)

\* C10 as stated: after any sequence of constructions the four registries
\* hold the entries of all documents parsed so far, the latest document
\* winning on an id collision.
C10_LatestDocumentWins ==
    lastInit = "ok" =>
        /\ NamesAccumulated(protDic, "protein")
        /\ NamesAccumulated(reactantDic, "reactant")
        /\ ReactionsAccumulated
        /\ RolesLatestWins

\* the lists of reac whose entry for s writes typeDic when rendered
Written(reac, s) ==
    {role \in RolesIn(reac, s) :
        role = "modifiers" => s \in DOMAIN reactantDic \cup DOMAIN protDic}

\* the role written last for s by a rendering of the whole reaction registry
LastWritten(s) ==
    LET i == Max({k \in 1..Len(reactionDic) : Written(reactionDic[k], s) # {}})
        w == Written(reactionDic[i], s)
    IN  IF "modifiers" \in w THEN "modifiers"
        ELSE IF "products" \in w THEN "products" ELSE "educts"

RolesAsRendered ==
    /\ \A s \in DOMAIN typeDic :
          \E k \in 1..Len(parsed) : typeDic[s] \in RolesInDocument(parsed[k], s)
    /\ lastInit = "ok" =>
          \A s \in SpeciesIds :
              (\E k \in 1..Len(reactionDic) : Written(reactionDic[k], s) # {})
                  => s \in DOMAIN typeDic /\ typeDic[s] = LastWritten(s)

NothingRemoved ==
    /\ DOMAIN protDic \subseteq DOMAIN protDic'
    /\ DOMAIN reactantDic \subseteq DOMAIN reactantDic'
    /\ DOMAIN typeDic \subseteq DOMAIN typeDic'
    /\ \A i \in 1..Len(reactionDic) :
          i <= Len(reactionDic') /\ reactionDic'[i].id = reactionDic[i].id

\* C10 as amended: the registries belong to the class and accumulate over
\* all documents parsed, no entry is ever removed; in the protein, reactant
\* and reaction registries the latest document wins on an id collision; the
\* species-role registry holds for a species the role written last by the
\* latest rendering of all accumulated reactions, walked in the order their
\* ids were first registered.
C10_RegistriesAccumulate ==
    /\ [](/\ NamesAccumulated(protDic, "protein")
          /\ NamesAccumulated(reactantDic, "reactant")
          /\ ReactionsAccumulated
          /\ RolesAsRendered)
    /\ [][NothingRemoved]_vars

\* C10 witness: two documents parsed, the second redefining names and a
\* reaction of the first, and a species whose role is the first document's
C10_Witness ==
    /\ Len(parsed) = 2 /\ Len(instances) = 2 /\ lastInit = "ok"
    /\ parsed[1].name = "x" /\ parsed[2].name = "y"
    /\ reactantDic["s1"] = "S1y" /\ reactantDic["s2"] = "S2x"
    /\ Len(reactionDic) = 2
    /\ reactionDic[1] \notin {parsed[1].reaction[i] : i \in 1..Len(parsed[1].reaction)}
    /\ "s1" \in DOMAIN typeDic
    /\ typeDic["s1"] \notin RolesInDocument(parsed[2], "s1")

-----------------------------------------------------------------------------
(* The whole program: one of the four parts runs, the others stay idle *)

Init == InitGrad \/ InitFit \/ InitTable \/ InitDoc

Next == NextGrad \/ NextFit \/ NextTable \/ NextDoc

Spec == Init /\ [][Next]_vars

=============================================================================
